---- MODULE Spec2Model ----
(***************************************************************************)
(* A model of chronograph/chronograph.py: the Chronograph stopwatch        *)
(* (start / stop / split / reset and the derived times), the process-wide  *)
(* registry all_chronographs with get_chronograph, and the add_chronograph *)
(* decorator.  The package targets Python 2.7 (setup.py), where            *)
(* "class Chronograph():" is an old-style class, so the instance attribute *)
(* timing_data set in __init__ shadows the read-only property of the same  *)
(* name and timing_data is a plain list of dicts.                          *)
(*                                                                         *)
(* datetime.now() is the integer clock `now`; a duration is a difference   *)
(* of two clock readings.  A message written to the sink (print_fnc) is a  *)
(* record naming its kind; the text formatting is not modelled.            *)
(***************************************************************************)
EXTENDS Integers, Sequences, FiniteSets, TLC

\* ------------------------------------------------------------- bounds
MaxTime == 2        \* the clock stops advancing here
MaxSplits == 3      \* no record is appended once the Chronographs hold this many
NThreads == 2       \* threads calling get_chronograph concurrently

\* ------------------------------------------------------------- values
\* Python's None, where a label or a name may be absent
None == "None"
\* the labels a caller passes to start() / split(): none, empty, a text
LabelArgs == {None, "", "a"}
\* the names used as registry keys
Names == {"f", "g"}
\* the functions decorated with add_chronograph, by __name__
Funcs == {"f"}
Verbosities == {0, 1, 2}
Threads == 1..NThreads

VARIABLES
    all_chronographs,   \* the registry: name -> object id (0: name not in dict)
    heap,               \* every Chronograph constructed so far, by object id
    now,                \* datetime.now()
    call,               \* the last call completed: what it was and what it gave back
    thr                 \* per thread: position inside get_chronograph and locals

vars == <<all_chronographs, heap, now, call, thr>>

\* ------------------------------------------------------------- helpers
Last(s) == s[Len(s)]

Digit(d) == <<"0", "1", "2", "3", "4", "5", "6", "7", "8", "9">>[d + 1]

\* str(n) for a natural number: its decimal digits
RECURSIVE str(_)
str(n) == IF n < 10 THEN Digit(n) ELSE str(n \div 10) \o Digit(n % 10)

\* truth value of a label argument: None and "" are falsy
Truthy(label) == label # None /\ label # ""

\* what a method call gives back: the object after the call, the value
\* returned (None when it raised), the exception raised (None when it
\* returned) and the messages written to the sink, in order
Outcome(self, ret, exc, out) == [self |-> self, ret |-> ret, exc |-> exc, out |-> out]

Msg(kind) == [kind |-> kind]

\* ------------------------------------------------------------- derived times
\* get_split_time() that substitutes the current time for a missing 'stop'
\* whatever allow_still_running says
get_split_time_always_now(split_data, allow_still_running, t) ==
    IF "stop" \in DOMAIN split_data
        THEN [ret |-> split_data.stop - split_data.start, exc |-> None]
    ELSE [ret |-> t - split_data.start, exc |-> None]

\* get_split_time(split_data, allow_still_running), read at clock t
get_split_time(split_data, allow_still_running, t) ==
    IF "stop" \in DOMAIN split_data
        THEN [ret |-> split_data.stop - split_data.start, exc |-> None]
    ELSE IF allow_still_running
        THEN [ret |-> t - split_data.start, exc |-> None]
    ELSE [ret |-> None, exc |-> "ChronographError"]

\* the loop of total_elapsed_time skipping the records without 'stop'
RECURSIVE SumElapsed_closed_only(_, _)
SumElapsed_closed_only(td, t) ==
    IF td = <<>> THEN 0
    ELSE LET r == Head(td)
         IN  (IF "stop" \in DOMAIN r THEN r.stop - r.start ELSE 0)
                + SumElapsed_closed_only(Tail(td), t)

\* the loop of total_elapsed_time assigning instead of adding: the value is
\* the duration of the last record
SumElapsed_last_only(td, t) ==
    IF td = <<>> THEN 0
    ELSE LET r == td[Len(td)]
         IN  (IF "stop" \in DOMAIN r THEN r.stop ELSE t) - r.start

RECURSIVE SumElapsed(_, _)
SumElapsed(td, t) ==
    IF td = <<>> THEN 0
    ELSE LET r == Head(td)
             stop_time == IF "stop" \in DOMAIN r THEN r.stop ELSE t
         IN  (stop_time - r.start) + SumElapsed(Tail(td), t)

total_elapsed_time(self, t) == SumElapsed(self.timing_data, t)

\* has_last_split: whether last_split finds a record (it returns False if not)
has_last_split(self) ==
    \E i \in 1..Len(self.timing_data) : "stop" \in DOMAIN self.timing_data[i]

\* last_split scanning timing_data from the front: the first closed record
last_split_first(self) ==
    LET td == self.timing_data
        closed == {i \in 1..Len(td) : "stop" \in DOMAIN td[i]}
    IN  IF closed = {} THEN FALSE
        ELSE td[CHOOSE i \in closed : \A j \in closed : i <= j]

last_split(self) ==
    LET td == self.timing_data
        closed == {i \in 1..Len(td) : "stop" \in DOMAIN td[i]}
    IN  IF closed = {} THEN FALSE
        ELSE td[CHOOSE i \in closed : \A j \in closed : j <= i]

\* last_split_time: "if self.last_split" is the truth value has_last_split
last_split_time(self, t) ==
    IF has_last_split(self) THEN get_split_time(last_split(self), FALSE, t)
    ELSE [ret |-> 0, exc |-> None]

\* __float__
float(self, t) == total_elapsed_time(self, t)

\* ------------------------------------------------------------- Chronograph
\* start() without the test of line 109: a record is appended in any state
start_unchecked(self, label, t) ==
    LET lab == IF Truthy(label) THEN label ELSE str(Len(self.timing_data) + 1)
        td  == Append(self.timing_data, [start |-> t, label |-> lab])
    IN  Outcome([self EXCEPT !.timing_data = td], "True", None,
                IF self.verbosity >= 2 THEN <<Msg("started")>> ELSE <<>>)

\* start() whose failure branch restarts the open record at the current time
start_restart(self, label, t) ==
    IF self.timing_data = <<>> \/ "stop" \in DOMAIN Last(self.timing_data)
        THEN start_unchecked(self, label, t)
    ELSE LET n  == Len(self.timing_data)
             td == [self.timing_data EXCEPT ![n].start = t]
             s2 == [self EXCEPT !.timing_data = td]
         IN  IF self.throw_exceptions
                 THEN Outcome(s2, None, "ChronographError", <<>>)
             ELSE Outcome(s2, "False", None, <<Msg("cannot start")>>)

\* start() without the throw_exceptions test of line 117: it always warns
start_always_warn(self, label, t) ==
    IF self.timing_data = <<>> \/ "stop" \in DOMAIN Last(self.timing_data)
        THEN start_unchecked(self, label, t)
    ELSE Outcome(self, "False", None, <<Msg("cannot start")>>)

\* start() that numbers an unlabelled record from 0: str(len(timing_data))
start_zero_based(self, label, t) ==
    IF self.timing_data = <<>> \/ "stop" \in DOMAIN Last(self.timing_data)
        THEN LET lab == IF Truthy(label) THEN label ELSE str(Len(self.timing_data))
                 td  == Append(self.timing_data, [start |-> t, label |-> lab])
             IN  Outcome([self EXCEPT !.timing_data = td], "True", None,
                         IF self.verbosity >= 2 THEN <<Msg("started")>> ELSE <<>>)
    ELSE IF self.throw_exceptions
        THEN Outcome(self, None, "ChronographError", <<>>)
    ELSE Outcome(self, "False", None, <<Msg("cannot start")>>)

\* start(self, label) at clock t
start(self, label, t) ==
    IF self.timing_data = <<>> \/ "stop" \in DOMAIN Last(self.timing_data)
        THEN LET lab == IF Truthy(label) THEN label
                        ELSE str(Len(self.timing_data) + 1)
                 td  == Append(self.timing_data, [start |-> t, label |-> lab])
             IN  Outcome([self EXCEPT !.timing_data = td], "True", None,
                         IF self.verbosity >= 2 THEN <<Msg("started")>> ELSE <<>>)
    ELSE IF self.throw_exceptions
        THEN Outcome(self, None, "ChronographError", <<>>)
    ELSE Outcome(self, "False", None, <<Msg("cannot start")>>)

\* stop() that tests only that timing_data is not empty: it sets 'stop' on
\* the last record again when that record is already closed
stop_overwrite(self, t) ==
    IF self.timing_data # <<>>
        THEN LET n    == Len(self.timing_data)
                 open == self.timing_data[n]
                 td   == [self.timing_data EXCEPT
                            ![n] = [start |-> open.start, label |-> open.label,
                                    stop |-> t]]
             IN  Outcome([self EXCEPT !.timing_data = td], "True", None, <<>>)
    ELSE Outcome(self, "False", None, <<Msg("cannot stop")>>)

\* stop(self) at clock t
stop(self, t) ==
    IF self.timing_data # <<>> /\ "stop" \notin DOMAIN Last(self.timing_data)
        THEN LET n    == Len(self.timing_data)
                 open == self.timing_data[n]
                 td   == [self.timing_data EXCEPT
                            ![n] = [start |-> open.start, label |-> open.label,
                                    stop |-> t]]
                 s2   == [self EXCEPT !.timing_data = td]
                 ls   == last_split(s2)
             IN  Outcome(s2, "True", None,
                    (IF self.verbosity >= 2 THEN <<Msg("stopped")>> ELSE <<>>)
                    \o (IF self.verbosity >= 1
                          THEN <<[kind  |-> "summary",
                                  total |-> total_elapsed_time(s2, t),
                                  label |-> ls.label,
                                  split |-> get_split_time(ls, FALSE, t).ret]>>
                          ELSE <<>>))
    ELSE Outcome(self, "False", None, <<Msg("cannot stop")>>)

\* reset() that assigns the empty list to a local name: timing_data is kept
reset_keeps_data(self) ==
    IF self.verbosity >= 2 /\ self.timing_data = <<>>
        THEN Outcome(self, None, "IndexError", <<>>)
    ELSE Outcome(self, IF self.verbosity >= 2 THEN "True" ELSE "False", None,
                 IF self.verbosity >= 2 THEN <<Msg("reset")>> ELSE <<>>)

\* reset(self): the message at verbosity >= 2 reads timing_data[-1] of the
\* list just emptied, which raises IndexError before anything is written
reset(self) ==
    LET s2 == [self EXCEPT !.timing_data = <<>>]
    IN  IF self.verbosity >= 2
            THEN Outcome(s2, None, "IndexError", <<>>)
        ELSE Outcome(s2, "False", None, <<>>)

\* split() that calls start(label) whatever stop() returned
split_always_start(self, label, t1, t2) ==
    LET stopped == stop(self, t1)
        started == start(stopped.self, label, t2)
    IN  Outcome(started.self, started.ret, started.exc, stopped.out \o started.out)

\* split(self, label): stop() at clock t1, then start(label) at clock t2
split(self, label, t1, t2) ==
    LET stopped == stop(self, t1)
    IN  IF stopped.ret = "True"
            THEN LET started == start(stopped.self, label, t2)
                 IN  Outcome(started.self, started.ret, started.exc,
                             stopped.out \o started.out)
        ELSE stopped

\* Chronograph.__init__(name, verbosity, start_timing, throw_exceptions) at
\* clock t; start_timing calls start()
Chronograph(name, verbosity, start_timing, throw_exceptions, t) ==
    LET self == [name |-> name, timing_data |-> <<>>, verbosity |-> verbosity,
                 throw_exceptions |-> throw_exceptions]
    IN  IF start_timing THEN start(self, None, t).self ELSE self

\* a with statement whose __exit__ runs only when the body completes: an
\* exception of the body leaves the record open
with_block_no_finally(self, raises, d, t) ==
    LET o1 == start(self, None, t)
        o2 == stop(o1.self, t + d)
    IN  IF o1.exc # None
            THEN [self |-> o1.self, now |-> t, exc |-> o1.exc, out |-> o1.out]
        ELSE IF raises
            THEN [self |-> o1.self, now |-> t + d, exc |-> "Exception", out |-> o1.out]
        ELSE [self |-> o2.self, now |-> t + d, exc |-> None, out |-> o1.out \o o2.out]

\* "with self: body", entered at clock t: __enter__ calls start(); the body
\* takes d clock ticks and either completes or raises; __exit__ calls stop()
\* and returns None, so the body's exception propagates.  An exception of
\* __enter__ leaves the statement before the body, and __exit__ is not called
with_block(self, raises, d, t) ==
    LET o1 == start(self, None, t)
        o2 == stop(o1.self, t + d)
    IN  IF o1.exc # None
            THEN [self |-> o1.self, now |-> t, exc |-> o1.exc, out |-> o1.out]
        ELSE [self |-> o2.self, now |-> t + d,
              exc |-> IF raises THEN "Exception" ELSE None, out |-> o1.out \o o2.out]

\* ------------------------------------------------------------- registry
\* the keyword arguments get_chronograph hands to the constructor: silent or
\* most verbose, timing from construction or not, either error policy
Kwargs == [verbosity : {0, 2}, start_timing : BOOLEAN, throw_exceptions : BOOLEAN]
\* the keyword arguments given to add_chronograph besides "name"
DecoratorKwargs == [verbosity : {0}, start_timing : BOOLEAN, throw_exceptions : BOOLEAN]

\* get_chronograph() without the membership test of line 35: every call
\* constructs a Chronograph and stores it under the name
get_chronograph_always_new(reg, hp, name, kwargs, t) ==
    LET hp2 == Append(hp, Chronograph(name, kwargs.verbosity, kwargs.start_timing,
                                      kwargs.throw_exceptions, t))
        reg2 == [reg EXCEPT ![name] = Len(hp2)]
    IN  [reg |-> reg2, heap |-> hp2, ret |-> reg2[name]]

\* get_chronograph() handing kwargs to a Chronograph already stored under the
\* name: its options are overwritten and start_timing starts it
get_chronograph_applies_kwargs(reg, hp, name, kwargs, t) ==
    IF reg[name] = 0 THEN get_chronograph_always_new(reg, hp, name, kwargs, t)
    ELSE LET old == [hp[reg[name]] EXCEPT !.verbosity = kwargs.verbosity,
                                          !.throw_exceptions = kwargs.throw_exceptions]
             new == IF kwargs.start_timing THEN start(old, None, t).self ELSE old
         IN  [reg |-> reg, heap |-> [hp EXCEPT ![reg[name]] = new], ret |-> reg[name]]

\* get_chronograph(name, **kwargs) at clock t, run without interruption, on
\* the registry reg and the objects hp; ret is the object returned
get_chronograph(reg, hp, name, kwargs, t) ==
    IF reg[name] = 0
        THEN LET hp2 == Append(hp, Chronograph(name, kwargs.verbosity,
                                    kwargs.start_timing, kwargs.throw_exceptions, t))
                 reg2 == [reg EXCEPT ![name] = Len(hp2)]
             IN  [reg |-> reg2, heap |-> hp2, ret |-> reg2[name]]
    ELSE [reg |-> reg, heap |-> hp, ret |-> reg[name]]

\* one call of a function decorated with add_chronograph(**kwargs1):
\* _decorator.  func is the function's __name__, explicit the "name" given in
\* kwargs1 (None: not given); the wrapped function takes d clock ticks and
\* either returns or raises
decorator(reg, hp, func, explicit, kwargs1, raises, d, t) ==
    LET my_name == func
        g  == IF explicit # None THEN get_chronograph(reg, hp, explicit, kwargs1, t)
              ELSE get_chronograph(reg, hp, my_name, kwargs1, t)
        o1 == start(g.heap[g.ret], None, t)
        h1 == [g.heap EXCEPT ![g.ret] = o1.self]
        o2 == stop(o1.self, t + d)
        h2 == [h1 EXCEPT ![g.ret] = o2.self]
    IN  IF o1.exc # None
            THEN [reg |-> g.reg, heap |-> h1, id |-> g.ret, now |-> t,
                  ret |-> None, exc |-> o1.exc, out |-> o1.out]
        ELSE IF raises
            THEN [reg |-> g.reg, heap |-> h1, id |-> g.ret, now |-> t + d,
                  ret |-> None, exc |-> "Exception", out |-> o1.out]
        ELSE [reg |-> g.reg, heap |-> h2, id |-> g.ret, now |-> t + d,
              ret |-> "return_data", exc |-> None, out |-> o1.out \o o2.out]

\* ------------------------------------------------------------- state
\* the state a Chronograph is in, as the callers see it
StateOf(self) ==
    IF self.timing_data # <<>> /\ "stop" \notin DOMAIN Last(self.timing_data)
        THEN "Running" ELSE "Idle"

NoCall == [op |-> "none", id |-> 0]

\* the number of records held by all the objects of hp together
RECURSIVE TotalRecords(_)
TotalRecords(hp) ==
    IF hp = <<>> THEN 0 ELSE Len(Head(hp).timing_data) + TotalRecords(Tail(hp))

\* the record of a method call on object id: the state and the number of
\* records it found, and what it gave back
Called(op, id, label, pre, o) ==
    [op |-> op, id |-> id, label |-> label, was |-> StateOf(pre),
     n |-> Len(pre.timing_data), ret |-> o.ret, exc |-> o.exc, out |-> o.out]

IdleThreads ==
    [t \in Threads |-> [pc |-> "idle", name |-> None, kwargs |-> None, obj |-> 0,
                        ret |-> 0]]

NoObjects == [n \in Names |-> 0]

\* one Chronograph built directly by its constructor, nothing registered
Init ==
    /\ all_chronographs = NoObjects
    /\ \E v \in Verbosities, st \in BOOLEAN, te \in BOOLEAN :
          heap = <<Chronograph(None, v, st, te, 0)>>
    /\ now = 0
    /\ call = NoCall
    /\ thr = IdleThreads

\* the clock advances between calls
Tick ==
    /\ now < MaxTime
    /\ now' = now + 1
    /\ UNCHANGED <<all_chronographs, heap, call, thr>>

Start(id, label) ==
    /\ LET o == start(heap[id], label, now)
       IN  /\ Len(o.self.timing_data) <= MaxSplits
           /\ heap' = [heap EXCEPT ![id] = o.self]
           /\ call' = Called("start", id, label, heap[id], o)
    /\ UNCHANGED <<all_chronographs, now, thr>>

Stop(id) ==
    /\ LET o == stop(heap[id], now)
       IN  /\ heap' = [heap EXCEPT ![id] = o.self]
           /\ call' = Called("stop", id, None, heap[id], o)
    /\ UNCHANGED <<all_chronographs, now, thr>>

\* the clock may advance between the stop() and the start() inside split()
Split(id, label, d) ==
    /\ now + d <= MaxTime
    /\ LET o == split(heap[id], label, now, now + d)
       IN  /\ Len(o.self.timing_data) <= MaxSplits
           /\ heap' = [heap EXCEPT ![id] = o.self]
           /\ call' = Called("split", id, label, heap[id], o)
    /\ now' = now + d
    /\ UNCHANGED <<all_chronographs, thr>>

Reset(id) ==
    /\ LET o == reset(heap[id])
       IN  /\ heap' = [heap EXCEPT ![id] = o.self]
           /\ call' = Called("reset", id, None, heap[id], o)
    /\ UNCHANGED <<all_chronographs, now, thr>>

Next ==
    \/ Tick
    \/ \E id \in 1..Len(heap), label \in LabelArgs : Start(id, label)
    \/ \E id \in 1..Len(heap) : Stop(id)
    \/ \E id \in 1..Len(heap), label \in LabelArgs, d \in 0..1 : Split(id, label, d)
    \/ \E id \in 1..Len(heap) : Reset(id)

Spec == Init /\ [][Next]_vars

\* ------------------------------------------------------------- reading the times
\* the derived values are read at the clock t of the read; a read changes no
\* Chronograph.  The record of a read holds the value returned, or else the
\* exception raised
TotalElapsedTime(id) ==
    /\ call' = [op |-> "total_elapsed_time", id |-> id, t |-> now,
                value |-> total_elapsed_time(heap[id], now)]
    /\ UNCHANGED <<all_chronographs, heap, now, thr>>

Float(id) ==
    /\ call' = [op |-> "float", id |-> id, t |-> now, value |-> float(heap[id], now)]
    /\ UNCHANGED <<all_chronographs, heap, now, thr>>

GetSplitTime(id, i, allow_still_running) ==
    /\ i \in 1..Len(heap[id].timing_data)
    /\ LET r == get_split_time(heap[id].timing_data[i], allow_still_running, now)
       IN  call' = IF r.exc = None
                       THEN [op |-> "get_split_time", id |-> id, i |-> i,
                             allow_still_running |-> allow_still_running, t |-> now,
                             value |-> r.ret, exc |-> None]
                   ELSE [op |-> "get_split_time", id |-> id, i |-> i,
                         allow_still_running |-> allow_still_running, t |-> now,
                         exc |-> r.exc]
    /\ UNCHANGED <<all_chronographs, heap, now, thr>>

LastSplit(id) ==
    /\ call' = [op |-> "last_split", id |-> id,
                found |-> has_last_split(heap[id]),
                split |-> IF has_last_split(heap[id]) THEN last_split(heap[id])
                          ELSE [none |-> last_split(heap[id])]]
    /\ UNCHANGED <<all_chronographs, heap, now, thr>>

LastSplitTime(id) ==
    /\ LET r == last_split_time(heap[id], now)
       IN  call' = IF r.exc = None
                       THEN [op |-> "last_split_time", id |-> id, t |-> now,
                             value |-> r.ret, exc |-> None]
                   ELSE [op |-> "last_split_time", id |-> id, t |-> now,
                         exc |-> r.exc]
    /\ UNCHANGED <<all_chronographs, heap, now, thr>>

\* the calls of Next on unlabelled splits, and the reads
NextRead ==
    \/ Tick
    \/ \E id \in 1..Len(heap) : Start(id, None)
    \/ \E id \in 1..Len(heap) : Stop(id)
    \/ \E id \in 1..Len(heap), d \in 0..1 : Split(id, None, d)
    \/ \E id \in 1..Len(heap) : Reset(id)
    \/ \E id \in 1..Len(heap) : TotalElapsedTime(id)
    \/ \E id \in 1..Len(heap) : Float(id)
    \/ \E id \in 1..Len(heap), i \in 1..MaxSplits, a \in BOOLEAN : GetSplitTime(id, i, a)
    \/ \E id \in 1..Len(heap) : LastSplit(id)
    \/ \E id \in 1..Len(heap) : LastSplitTime(id)

SpecRead == Init /\ [][NextRead]_vars

\* ------------------------------------------------------------- registry, one caller
\* the process starts with an empty registry and no Chronograph
InitRegistry ==
    /\ all_chronographs = NoObjects
    /\ heap = <<>>
    /\ now = 0
    /\ call = NoCall
    /\ thr = IdleThreads

GetChronograph(name, kwargs) ==
    /\ LET g == get_chronograph(all_chronographs, heap, name, kwargs, now)
       IN  /\ all_chronographs' = g.reg
           /\ heap' = g.heap
           /\ call' = [op |-> "get_chronograph", id |-> g.ret, name |-> name,
                       kwargs |-> kwargs,
                       was |-> IF all_chronographs[name] = 0 THEN "absent"
                               ELSE "present"]
    /\ UNCHANGED <<now, thr>>

\* calls counts the decorated calls made so far, by Chronograph name
DecoratedCall(func, explicit, kwargs1, raises, d) ==
    /\ now + d <= MaxTime
    /\ \E r \in {decorator(all_chronographs, heap, func, explicit, kwargs1, raises,
                             d, now)} :
          LET name == IF explicit # None THEN explicit ELSE func
              old  == all_chronographs[name]
              made == IF call.op = "decorated" THEN call.calls ELSE NoObjects
          IN  /\ TotalRecords(r.heap) <= MaxSplits
              /\ made[name] < MaxSplits
              /\ all_chronographs' = r.reg
              /\ heap' = r.heap
              /\ now' = r.now
              /\ call' = [op |-> "decorated", id |-> r.id, name |-> name,
                          raises |-> raises,
                          calls |-> [made EXCEPT ![name] = @ + 1],
                          was |-> IF old = 0 THEN "absent" ELSE StateOf(heap[old]),
                          n |-> IF old = 0 THEN 0 ELSE Len(heap[old].timing_data),
                          ret |-> r.ret, exc |-> r.exc]
    /\ UNCHANGED thr

\* a caller stops the Chronograph it got from the registry, started by
\* start_timing
NextRegistry ==
    \/ Tick
    \/ \E name \in Names, kwargs \in Kwargs : GetChronograph(name, kwargs)
    \/ \E id \in 1..Len(heap) : Stop(id)

SpecRegistry == InitRegistry /\ [][NextRegistry]_vars

\* ------------------------------------------------------------- decorated calls
NextDecorator ==
    \/ Tick
    \/ \E func \in Funcs, explicit \in {None, "g"}, kwargs1 \in DecoratorKwargs,
          raises \in BOOLEAN, d \in 0..1 :
            DecoratedCall(func, explicit, kwargs1, raises, d)

SpecDecorator == InitRegistry /\ [][NextDecorator]_vars

\* ------------------------------------------------------------- with statement
WithBlock(id, raises, d) ==
    /\ now + d <= MaxTime
    /\ \E r \in {with_block(heap[id], raises, d, now)} :
          /\ Len(r.self.timing_data) <= MaxSplits
          /\ heap' = [heap EXCEPT ![id] = r.self]
          /\ now' = r.now
          /\ call' = [op |-> "with", id |-> id, raises |-> raises,
                      was |-> StateOf(heap[id]), n |-> Len(heap[id].timing_data),
                      t |-> now, exc |-> r.exc, out |-> r.out]
    /\ UNCHANGED <<all_chronographs, thr>>

NextWith ==
    \/ Tick
    \/ \E id \in 1..Len(heap) : Start(id, None)
    \/ \E id \in 1..Len(heap) : Stop(id)
    \/ \E id \in 1..Len(heap), raises \in BOOLEAN, d \in 0..1 : WithBlock(id, raises, d)

SpecWith == Init /\ [][NextWith]_vars

\* ------------------------------------------------------------- registry, threads
\* each thread calls get_chronograph once; the interpreter may switch threads
\* between the membership test of line 35, the constructor call and the
\* dictionary store of line 36, and the lookup of line 38
ThreadCall(t, name, kwargs) ==
    /\ thr[t].pc = "idle"
    /\ thr' = [thr EXCEPT ![t] = [@ EXCEPT !.pc = "L35", !.name = name,
                                            !.kwargs = kwargs]]
    /\ UNCHANGED <<all_chronographs, heap, now, call>>

\* line 35: if name not in all_chronographs
ThreadCheck(t) ==
    /\ thr[t].pc = "L35"
    /\ thr' = [thr EXCEPT ![t].pc =
                  IF all_chronographs[thr[t].name] = 0 THEN "L36" ELSE "L38"]
    /\ UNCHANGED <<all_chronographs, heap, now, call>>

\* line 36, right-hand side: Chronograph(name, **kwargs)
ThreadConstruct(t) ==
    /\ thr[t].pc = "L36"
    /\ LET k == thr[t].kwargs
       IN  heap' = Append(heap, Chronograph(thr[t].name, k.verbosity, k.start_timing,
                                            k.throw_exceptions, now))
    /\ thr' = [thr EXCEPT ![t] = [@ EXCEPT !.pc = "L36_store", !.obj = Len(heap')]]
    /\ UNCHANGED <<all_chronographs, now, call>>

\* line 36, the store: all_chronographs[name] = ...
ThreadStore(t) ==
    /\ thr[t].pc = "L36_store"
    /\ all_chronographs' = [all_chronographs EXCEPT ![thr[t].name] = thr[t].obj]
    /\ thr' = [thr EXCEPT ![t].pc = "L38"]
    /\ UNCHANGED <<heap, now, call>>

\* line 38: return all_chronographs[name]
ThreadReturn(t) ==
    /\ thr[t].pc = "L38"
    /\ thr' = [thr EXCEPT ![t] = [@ EXCEPT !.pc = "done",
                                            !.ret = all_chronographs[thr[t].name]]]
    /\ UNCHANGED <<all_chronographs, heap, now, call>>

NextThreads ==
    \/ Tick
    \/ \E t \in Threads, name \in Names, kwargs \in Kwargs : ThreadCall(t, name, kwargs)
    \/ \E t \in Threads : ThreadCheck(t)
    \/ \E t \in Threads : ThreadConstruct(t)
    \/ \E t \in Threads : ThreadStore(t)
    \/ \E t \in Threads : ThreadReturn(t)

SpecThreads == InitRegistry /\ [][NextThreads]_vars

\* ------------------------------------------------------------- properties
\* a step that is a call: it changes the record of the last call or an object
CallStep == call' # call \/ heap' # heap

TimingData(id) == heap[id].timing_data

\* C1: in every reachable state, of every Chronograph, at most the last
\* record of timing_data lacks 'stop'; every earlier record is closed.
AtMostLastOpen ==
    \A id \in 1..Len(heap) :
        \A i \in 1..(Len(TimingData(id)) - 1) : "stop" \in DOMAIN TimingData(id)[i]

\* two closed records followed by an open one
AtMostLastOpenWitness ==
    \E id \in 1..Len(heap) :
        /\ Len(TimingData(id)) = 3
        /\ "stop" \in DOMAIN TimingData(id)[1]
        /\ "stop" \in DOMAIN TimingData(id)[2]
        /\ StateOf(heap[id]) = "Running"

\* C2: start() called while Running fails (returns False or raises
\* ChronographError) and leaves timing_data as it was, length and contents,
\* under both error policies.
StartWhileRunningNoChange ==
    [][(CallStep /\ call'.op = "start" /\ StateOf(heap[call'.id]) = "Running")
         => /\ heap'[call'.id].timing_data = heap[call'.id].timing_data
            /\ \/ call'.ret = "False" /\ call'.exc = None
               \/ call'.ret = None /\ call'.exc = "ChronographError"]_vars

\* a start() has failed on a Running Chronograph of two records, after the
\* clock had moved past the start of the open record
StartWhileRunningWitness ==
    /\ call.op = "start"
    /\ call.was = "Running"
    /\ call.ret = "False"
    /\ call.n = 2
    /\ Len(TimingData(call.id)) = 2
    /\ Last(TimingData(call.id)).start < now

StartErrorPolicy ==
    (call.op = "start" /\ call.was = "Running")
        => /\ Len(TimingData(call.id)) = call.n
           /\ IF heap[call.id].throw_exceptions
                  THEN call.exc = "ChronographError" /\ call.ret = None
              ELSE /\ call.ret = "False"
                   /\ call.exc = None
                   /\ call.out = <<Msg("cannot start")>>

\* a start() on a Running Chronograph has raised ChronographError
StartErrorPolicyWitness ==
    /\ call.op = "start"
    /\ call.was = "Running"
    /\ heap[call.id].throw_exceptions
    /\ call.exc = "ChronographError"

\* C5: split(label) on a Running Chronograph does what stop() followed by
\* start(label) does: the open record is closed at the current time, one open
\* record with that label is appended, the result is True; on an Idle
\* Chronograph split returns False and appends nothing.
SplitIsStopThenStart ==
    [][(CallStep /\ call'.op = "split")
         => LET pre  == heap[call'.id].timing_data
                post == heap'[call'.id].timing_data
                n    == Len(pre)
            IN  IF StateOf(heap[call'.id]) = "Running"
                    THEN /\ call'.ret = "True"
                         /\ call'.exc = None
                         /\ Len(post) = n + 1
                         /\ \A i \in 1..(n - 1) : post[i] = pre[i]
                         /\ post[n] = [start |-> pre[n].start, label |-> pre[n].label,
                                       stop |-> now]
                         /\ DOMAIN post[n + 1] = {"start", "label"}
                         /\ post[n + 1].start = now'
                         /\ Truthy(call'.label) => post[n + 1].label = call'.label
                         /\ heap'[call'.id] =
                              start(stop(heap[call'.id], now).self, call'.label, now').self
                ELSE /\ call'.ret = "False"
                     /\ call'.exc = None
                     /\ post = pre]_vars

\* a split("a") has closed the open record and opened a record labelled "a"
SplitIsStopThenStartWitness ==
    /\ call.op = "split"
    /\ call.was = "Running"
    /\ call.label = "a"
    /\ call.ret = "True"
    /\ Len(TimingData(call.id)) = call.n + 1
    /\ Last(TimingData(call.id)).label = "a"
    /\ "stop" \in DOMAIN TimingData(call.id)[call.n]

\* C6: reset() leaves timing_data empty whatever the state before, and the
\* start() that follows a reset() returns True and appends exactly one open
\* record.
ResetEmptiesThenStartSucceeds ==
    [][/\ (CallStep /\ call'.op = "reset") => heap'[call'.id].timing_data = <<>>
       /\ (CallStep /\ call.op = "reset" /\ call'.op = "start" /\ call'.id = call.id)
            => /\ call'.ret = "True"
               /\ Len(heap'[call'.id].timing_data) = 1
               /\ StateOf(heap'[call'.id]) = "Running"]_vars

\* a reset() has emptied a Running Chronograph that held several records
ResetEmptiesWitness ==
    /\ call.op = "reset"
    /\ call.was = "Running"
    /\ call.n >= 2
    /\ TimingData(call.id) = <<>>

\* C7: reset() always succeeds: in either state and at every verbosity it
\* completes normally and reports True, and it writes to the sink only at
\* verbosity >= 2.
ResetReportsTrue ==
    call.op = "reset"
        => /\ call.exc = None
           /\ call.ret = "True"
           /\ (call.out # <<>> => heap[call.id].verbosity >= 2)

\* C8: when threads call get_chronograph concurrently, one Chronograph is
\* constructed per name and all callers of a name receive the same instance.
OneInstancePerName ==
    /\ \A n \in Names : Cardinality({i \in 1..Len(heap) : heap[i].name = n}) <= 1
    /\ \A t1, t2 \in Threads :
          (thr[t1].pc = "done" /\ thr[t2].pc = "done" /\ thr[t1].name = thr[t2].name)
              => thr[t1].ret = thr[t2].ret

\* C9: in a sequential series of get_chronograph calls the first call for a
\* name constructs one Chronograph and inserts it, every later call for the
\* name returns that instance and constructs nothing, and an entry is never
\* removed or replaced.
NameResolvesToOneInstance ==
    [][/\ \A n \in Names :
             all_chronographs[n] # 0 => all_chronographs'[n] = all_chronographs[n]
       /\ (CallStep /\ call'.op = "get_chronograph")
            => IF all_chronographs[call'.name] = 0
                   THEN /\ Len(heap') = Len(heap) + 1
                        /\ call'.id = Len(heap')
                        /\ all_chronographs'[call'.name] = call'.id
                        /\ heap'[call'.id].name = call'.name
               ELSE /\ call'.id = all_chronographs[call'.name]
                    /\ Len(heap') = Len(heap)
       /\ \A n \in Names :
             Cardinality({i \in 1..Len(heap') : heap'[i].name = n}) <= 1]_vars

\* both names are registered and a call for a registered name has returned
NameResolvesToOneInstanceWitness ==
    /\ call.op = "get_chronograph"
    /\ call.was = "present"
    /\ Len(heap) = 2
    /\ call.id = all_chronographs[call.name]

\* C10: if the wrapped callable raises, the decorator has still run stop():
\* once the exception has propagated the Chronograph is Idle.
DecoratorStopsOnException ==
    (call.op = "decorated" /\ call.raises /\ call.exc = "Exception")
        => StateOf(heap[call.id]) = "Idle"

\* the number of records of td that have a 'stop'
ClosedRecords(td) == Cardinality({i \in 1..Len(td) : "stop" \in DOMAIN td[i]})

\* C11: after N calls of a decorated function the Chronograph resolved under
\* the explicit name, or else the function's name, holds exactly N closed
\* records and no open record.
NCallsGiveNClosedRecords ==
    call.op = "decorated"
        => \A n \in Names :
              call.calls[n] > 0
                  => /\ ClosedRecords(TimingData(all_chronographs[n])) = call.calls[n]
                     /\ Len(TimingData(all_chronographs[n])) = call.calls[n]

\* C12: the error policy applies to stop() as it does to start(): stop()
\* called while Idle raises ChronographError with throw_exceptions True, and
\* warns and returns False with throw_exceptions False.
StopErrorPolicy ==
    (call.op = "stop" /\ call.was = "Idle")
        => IF heap[call.id].throw_exceptions
               THEN call.exc = "ChronographError" /\ call.ret = None
           ELSE /\ call.ret = "False"
                /\ call.exc = None
                /\ call.out = <<Msg("cannot stop")>>

\* C13: across a start, stop or split call timing_data is append-only: every
\* record keeps its position, 'start' and 'label', a record that has a 'stop'
\* does not change, and the only change made in place is a 'stop' added to
\* the last record when it was open.
AppendOnlyBetweenResets ==
    [][(CallStep /\ call'.op \in {"start", "stop", "split"})
         => LET pre  == heap[call'.id].timing_data
                post == heap'[call'.id].timing_data
            IN  /\ Len(post) >= Len(pre)
                /\ \A i \in 1..Len(pre) :
                      /\ post[i].start = pre[i].start
                      /\ post[i].label = pre[i].label
                      /\ "stop" \in DOMAIN pre[i] => post[i] = pre[i]
                      /\ post[i] # pre[i]
                           => /\ i = Len(pre)
                              /\ DOMAIN post[i] = {"start", "label", "stop"}]_vars

\* a stop() at a later time has closed the third record, after two closed ones
AppendOnlyWitness ==
    /\ call.op = "stop"
    /\ call.was = "Running"
    /\ call.ret = "True"
    /\ call.n = 3
    /\ TimingData(call.id)[1].stop < Last(TimingData(call.id)).stop

\* the decimal strings of the first ordinals, written out
Ordinals == <<"1", "2", "3", "4", "5", "6">>

\* C14: a record created by start() or split() without a label is labelled
\* with the decimal string of its 1-based position in timing_data: every
\* record that does not carry a label given by the caller has, at index i,
\* the label of ordinal i; the numbering starts again at "1" after reset().
DefaultLabelIsOrdinal ==
    \A id \in 1..Len(heap) :
        \A i \in 1..Len(TimingData(id)) :
            \/ TimingData(id)[i].label \in {l \in LabelArgs : Truthy(l)}
            \/ TimingData(id)[i].label = Ordinals[i]

\* a split() without a label has appended the third record, labelled "3",
\* after a record labelled by the caller
DefaultLabelWitness ==
    /\ call.op = "split"
    /\ call.label = None
    /\ call.ret = "True"
    /\ call.n = 2
    /\ TimingData(call.id)[1].label = "a"
    /\ TimingData(call.id)[3].label = "3"

\* the sum, over the first n records of td, of (stop, or t for a record
\* without 'stop') minus start
RECURSIVE SumOfDurations(_, _, _)
SumOfDurations(td, t, n) ==
    IF n = 0 THEN 0
    ELSE SumOfDurations(td, t, n - 1)
            + ((IF "stop" \in DOMAIN td[n] THEN td[n].stop ELSE t) - td[n].start)

\* the sum of get_split_time over the first n records of td, all closed
RECURSIVE SumOfSplitTimes(_, _)
SumOfSplitTimes(td, n) ==
    IF n = 0 THEN 0
    ELSE SumOfSplitTimes(td, n - 1) + get_split_time(td[n], FALSE, 0).ret

\* C15: total_elapsed_time, and float(chronograph), is the sum over all records
\* of (stop, or the time of the read if the record is open) minus start; on
\* an Idle Chronograph it is the sum of get_split_time over the records.
TotalIsSumOfSplits ==
    call.op \in {"total_elapsed_time", "float"}
        => LET td == TimingData(call.id)
           IN  /\ call.value = SumOfDurations(td, call.t, Len(td))
               /\ StateOf(heap[call.id]) = "Idle"
                    => call.value = SumOfSplitTimes(td, Len(td))

\* the total read on a Running Chronograph some time after the start of its
\* open record, with closed records of positive duration before it
TotalIsSumOfSplitsWitness ==
    /\ call.op = "total_elapsed_time"
    /\ StateOf(heap[call.id]) = "Running"
    /\ Len(TimingData(call.id)) >= 2
    /\ Last(TimingData(call.id)).start < call.t
    /\ TimingData(call.id)[1].start < TimingData(call.id)[1].stop
    /\ call.value = 2

\* C16: while a Chronograph stays Running, total_elapsed_time never decreases
\* from one state to the next as the clock advances, a failed start() and a
\* split() included; get_split_time of the open record with
\* allow_still_running=True is never negative and never decreases while that
\* record stays the open one.
ElapsedNeverDecreasesWhileRunning ==
    [][\A id \in 1..Len(heap) :
          (StateOf(heap[id]) = "Running" /\ StateOf(heap'[id]) = "Running")
            => LET pre  == heap[id].timing_data
                   post == heap'[id].timing_data
               IN  /\ total_elapsed_time(heap'[id], now') >= total_elapsed_time(heap[id], now)
                   /\ get_split_time(Last(post), TRUE, now').exc = None
                   /\ get_split_time(Last(post), TRUE, now').ret >= 0
                   /\ Len(post) = Len(pre)
                        => get_split_time(Last(post), TRUE, now').ret
                             >= get_split_time(Last(pre), TRUE, now).ret]_vars

\* a split() has closed a record of positive duration and the clock has
\* advanced since: the total is read while Running
ElapsedNeverDecreasesWitness ==
    /\ call.op = "total_elapsed_time"
    /\ StateOf(heap[call.id]) = "Running"
    /\ Len(TimingData(call.id)) = 2
    /\ TimingData(call.id)[1].stop > TimingData(call.id)[1].start
    /\ TimingData(call.id)[1].stop = TimingData(call.id)[2].start
    /\ call.t > TimingData(call.id)[2].start

\* C17: get_split_time on a record without 'stop' raises ChronographError
\* when allow_still_running is False and gives the current time minus start
\* when it is True; on a record with 'stop' it gives stop minus start
\* whatever the flag; the record is not modified.
GetSplitTimeRule ==
    [][(CallStep /\ call'.op = "get_split_time")
         => LET r == heap[call'.id].timing_data[call'.i]
            IN  /\ heap' = heap
                /\ IF "stop" \in DOMAIN r
                       THEN call'.exc = None /\ call'.value = r.stop - r.start
                   ELSE IF call'.allow_still_running
                       THEN call'.exc = None /\ call'.value = now - r.start
                   ELSE call'.exc = "ChronographError"]_vars

\* get_split_time without allow_still_running has raised on the open record,
\* some time after the record was started
GetSplitTimeRuleWitness ==
    /\ call.op = "get_split_time"
    /\ call.exc = "ChronographError"
    /\ ~call.allow_still_running
    /\ "stop" \notin DOMAIN TimingData(call.id)[call.i]
    /\ TimingData(call.id)[call.i].start < call.t

\* C18: last_split is the most recent record with a 'stop': the last record
\* when Idle, the one before the open record when Running, and False when no
\* record is closed; last_split_time is that record's duration, or 0 when
\* there is none, and does not raise.
LastSplitIsLastClosed ==
    LET td == TimingData(call.id)
        n  == Len(td)
        k  == IF StateOf(heap[call.id]) = "Idle" THEN n ELSE n - 1
    IN  /\ call.op = "last_split"
            => IF k >= 1 THEN call.found /\ call.split = td[k]
               ELSE ~call.found /\ call.split = [none |-> FALSE]
        /\ call.op = "last_split_time"
            => /\ call.exc = None
               /\ call.value = IF k >= 1 THEN td[k].stop - td[k].start ELSE 0

\* last_split read on a Running Chronograph with two closed records
LastSplitWitness ==
    /\ call.op = "last_split"
    /\ StateOf(heap[call.id]) = "Running"
    /\ Len(TimingData(call.id)) = 3
    /\ call.found
    /\ call.split = TimingData(call.id)[2]

\* C19: get_chronograph called with a name already in the registry ignores the
\* keyword arguments: the registry and every Chronograph (timing_data,
\* verbosity, throw_exceptions) are unchanged, in particular start_timing=True
\* starts no split, and the Chronograph stored under the name is returned.
GetExistingIgnoresKwargs ==
    [][(/\ CallStep
        /\ call'.op = "get_chronograph"
        /\ all_chronographs[call'.name] # 0)
       => /\ heap' = heap
          /\ all_chronographs' = all_chronographs
          /\ call'.id = all_chronographs[call'.name]
          /\ call'.was = "present"]_vars

\* a name already registered, asked for again with start_timing=True and with
\* a verbosity and an error policy other than the stored Chronograph's, which
\* stopped earlier and so is Idle with one closed record
GetExistingWitness ==
    /\ call.op = "get_chronograph"
    /\ call.was = "present"
    /\ call.kwargs.start_timing
    /\ call.kwargs.verbosity # heap[call.id].verbosity
    /\ call.kwargs.throw_exceptions # heap[call.id].throw_exceptions
    /\ StateOf(heap[call.id]) = "Idle"
    /\ Len(TimingData(call.id)) = 1

\* C20: a with statement on an Idle Chronograph appends exactly one record,
\* started on entry and closed on exit, and leaves the Chronograph Idle,
\* whether the body completes or raises; the body's exception, and nothing
\* else, leaves the statement.
WithClosesOnEveryPath ==
    (call.op = "with" /\ call.was = "Idle")
        => LET td == TimingData(call.id)
           IN  /\ StateOf(heap[call.id]) = "Idle"
               /\ Len(td) = call.n + 1
               /\ "stop" \in DOMAIN Last(td)
               /\ Last(td).start = call.t
               /\ ClosedRecords(td) = call.n + 1
               /\ call.exc = IF call.raises THEN "Exception" ELSE None

\* a with statement on an Idle Chronograph holding a record, whose body took
\* time and raised
WithRaisesWitness ==
    /\ call.op = "with"
    /\ call.was = "Idle"
    /\ call.raises
    /\ call.n >= 1
    /\ call.exc = "Exception"
    /\ Last(TimingData(call.id)).stop > call.t

====
